---- MODULE Spec2Model ----
(***************************************************************************)
(* Model of fidget/patching.py: Fidget.patch_stack (the frame             *)
(* orchestrator) and Fidget.patch_function_stack (tag classification,     *)
(* constraint model, greedy admission, extraction, patch emission).       *)
(* The collaborators that patching.py imports (stack_magic, executable,   *)
(* sym_tracking, claripy) are modelled from the specification.            *)
(***************************************************************************)
EXTENDS Integers, Sequences, FiniteSets, TLC

\* ------------------------------------------------------------ bounds
\* Events the tagging backend may produce in one patch_stack run (Spec).
MaxEvents == 3
\* The same budget for the runs with every orchestrator configuration.
MaxEventsOrch == 2
\* The same budget for the runs on frames with incoming-argument slots.
MaxEventsSlots == 3
\* The same budget for the runs in which two functions can be patched.
MaxEventsAppend == 4
\* Longest whitelist / blacklist given to the constructor.
\* The longest event stream of a function whose candidates are admitted
\* from either side.
MaxEventsAdmit == 3
MaxListLen == 1
\* Most successors the CFG reports for the entry point's nodes.
MaxSuccs == 1

\* ------------------------------------------------------------ constants
None == "None"
\* do_not_touch = None, for an address; a fresh solver holds no model.
NoAddr == 0
Unsolved == 0
\* claripy.BitVec("stack_size", 64) is added 16 per variable plus 32.
GrowthPerVar == 16
GrowthSlack == 32
BitsPerByte == 8

\* ------------------------------------------------------------ backend
\* Function addresses the CFG may report (funcman.functions.keys()): the
\* entry point and two more functions.
EntryPoints == {12}
Candidates == {10, 11}
Addrs == Candidates \cup EntryPoints

HexDigits == <<"0", "1", "2", "3", "4", "5", "6", "7",
               "8", "9", "a", "b", "c", "d", "e", "f">>

RECURSIVE Hex(_)
Hex(n) == IF n < 16 THEN HexDigits[n + 1]
          ELSE Hex(n \div 16) \o HexDigits[(n % 16) + 1]

\* funcname = 'sub_%x' % funcaddr
FuncName(a) == "sub_" \o Hex(a)

\* Names a user may put on a list.
Names == {FuncName(a) : a \in Candidates}

\* Architectures: name, native word in bits, stack-args convention.
Archs == {"MIPS32", "X86", "AMD64"}
NativeWord(a) == IF a = "AMD64" THEN 64 ELSE 32
ConventionStackArgs(a) == a = "X86"

Sections == {"text", "data", None}

\* CFG successors of the entry point: <<addr, jumpkind>>.
SuccPairs == {<<10, "Ijk_Call">>, <<11, "Ijk_Call">>, <<11, "Ijk_Boring">>}
RECURSIVE SeqsUpTo(_, _)
SeqsUpTo(S, n) == IF n = 0 THEN {<<>>}
                  ELSE LET shorter == SeqsUpTo(S, n - 1)
                       IN shorter \cup {Append(s, x) : s \in shorter, x \in S}
SuccLists == SeqsUpTo(SuccPairs, MaxSuccs)
NameLists == {l \in SUBSET Names : Cardinality(l) <= MaxListLen}

\* ------------------------------------------------------------ events
\* One (tag, bindata) pair of find_stack_tags.  value is the observed
\* stack offset, width the access width, symbolic whether symval depends
\* on the frame size, limit the largest magnitude the instruction's
\* immediate field can encode (its own effect constraint).
Ev(t, v, w, s, l) == [tag |-> t, value |-> v, width |-> w, symbolic |-> s, limit |-> l]

AllocEvents == {Ev("STACK_ALLOC", -16, 0, TRUE, 127),
                Ev("STACK_ALLOC", -32, 0, TRUE, 127),
                Ev("STACK_ALLOC", -20, 0, TRUE, 23)}
DeallocEvents == {Ev("STACK_DEALLOC", 0, 0, TRUE, 127),
                  Ev("STACK_DEALLOC", 0, 0, FALSE, 15)}
AccessEvents == {Ev("STACK_ACCESS", -24, 4, FALSE, 127),
                 Ev("STACK_ACCESS", -20, 4, FALSE, 127),
                 Ev("STACK_ACCESS", -24, 8, FALSE, 127)}
OtherEvents == {Ev("", 0, 0, FALSE, 0),
                Ev("STACK_ALLOCA", 0, 0, FALSE, 0),
                Ev("STACK_BOGUS", 0, 0, FALSE, 0)}
Events == AllocEvents \cup DeallocEvents \cup AccessEvents \cup OtherEvents

\* bindata of an event: the event and its instruction address.
Bind(e, addr) == [tag |-> e.tag, value |-> e.value, width |-> e.width,
                  symbolic |-> e.symbolic, limit |-> e.limit, memaddr |-> addr]
\* alloc_op = None
NoBinding == Bind(Ev("None", 0, 0, FALSE, 0), 0)

KnownTags == {"STACK_ALLOC", "STACK_DEALLOC", "STACK_ACCESS", "STACK_ALLOCA"}

\* The events of the binaries the orchestrator is run on with every
\* configuration: one of each tag.
OrchEvents == {Ev("STACK_ALLOC", -16, 0, TRUE, 127),
               Ev("STACK_DEALLOC", 0, 0, TRUE, 127),
               Ev("STACK_ACCESS", -20, 4, FALSE, 127)} \cup OtherEvents

\* The events of functions that read their incoming arguments: accesses at
\* the stack size, one and eight 32-bit words above it, and one below a
\* frame of 0x10 bytes.
SlotEvents == {Ev("STACK_ALLOC", -16, 0, TRUE, 127),
               Ev("STACK_DEALLOC", 0, 0, TRUE, 127),
               Ev("STACK_ACCESS", 16, 4, FALSE, 127),
               Ev("STACK_ACCESS", 20, 4, FALSE, 127),
               Ev("STACK_ACCESS", 48, 4, FALSE, 127),
               Ev("STACK_ACCESS", -20, 4, FALSE, 127)} \cup OtherEvents

\* The ordered event streams of at most n events of the kinds ks.
Streams(ks, n) == SeqsUpTo(ks, n)

\* ------------------------------------------------------------ solver
\* A constraint over the one symbolic value S (sym_stack_size).
Con(o, k) == [op |-> o, k |-> k]
Holds(c, S) == CASE c.op = "ge" -> S >= c.k
                 [] c.op = "le" -> S <= c.k
                 [] c.op = "mod" -> S % c.k = 0

\* Every instruction's own effect constraint keeps S encodable, so the
\* 64-bit value S never leaves the widest immediate field.
MaxLimit == CHOOSE m \in {e.limit : e \in Events} :
                \A e \in Events : e.limit <= m
Domain == 0..MaxLimit

\* The models of a constraint set: the values of the domain that satisfy
\* every constraint, sought between the largest floor and the least ceiling.
Floor(cs) == LET ks == {0} \cup {c.k : c \in {d \in cs : d.op = "ge"}}
             IN CHOOSE k \in ks : \A j \in ks : j <= k
Ceiling(cs) == LET ks == {MaxLimit} \cup {c.k : c \in {d \in cs : d.op = "le"}}
               IN CHOOSE k \in ks : \A j \in ks : k <= j
Models(cs) == {S \in Domain \cap (Floor(cs)..Ceiling(cs)) : \A c \in cs : Holds(c, S)}
\* symrepr.satisfiable
Satisfiable(cs) == Models(cs) # {}

\* ------------------------------------------------------------ state
VARIABLES
    arch, entry, funcs, succs,                  \* the binary
    whitelist, blacklist,                       \* the lists
    kinds, budget,                              \* events the backend produces
    forms,                                      \* bounds the candidates put on S
    pc, raised, report,                         \* control, exception, log
    do_not_touch, todo, last_size, successes,   \* patch_stack locals
    stack_patch_data,                           \* self._stack_patch_data
    funcaddr, stream, pos,                      \* patch_function_stack
    alloc_op, dealloc_ops, variables,
    constraints, unsafe_constraints, committed, ui, model, new_stack,
    analysed, contributed, consumed, located    \* history of the run

cfgvars == <<arch, entry, funcs, succs, whitelist, blacklist, kinds, forms>>
orchvars == <<do_not_touch, todo, last_size, successes>>
funcvars == <<funcaddr, stream, pos, alloc_op, dealloc_ops, variables>>
solvervars == <<constraints, unsafe_constraints, committed, ui, model, new_stack>>
histvars == <<analysed, contributed, consumed, located>>
vars == <<cfgvars, budget, pc, raised, report, orchvars, stack_patch_data,
          funcvars, solvervars, histvars>>

\* VarList(binrepr, symrepr, 0)
EmptyVarList == [stack_size |-> 0, old_size |-> 0, linked |-> FALSE,
                 accesses |-> <<>>, vars |-> {}]

\* Fidget.__init__, for a binary and lists drawn from cfgs.
InitForms(cfgs, ks, events, fs) ==
    /\ \E c \in cfgs :
          /\ arch = c.arch
          /\ entry = c.entry
          /\ funcs = c.funcs
          /\ succs = c.succs
          /\ whitelist = c.whitelist
          /\ blacklist = c.blacklist
    /\ kinds = ks
    /\ budget = events
    /\ forms = fs
    /\ pc = "init"
    /\ raised = None
    /\ report = None
    /\ do_not_touch = NoAddr
    /\ todo = {}
    /\ last_size = 0
    /\ successes = 0
    /\ stack_patch_data = <<>>
    /\ funcaddr = NoAddr
    /\ stream = <<>>
    /\ pos = 1
    /\ alloc_op = NoBinding
    /\ dealloc_ops = <<>>
    /\ variables = EmptyVarList
    /\ constraints = {}
    /\ unsafe_constraints = <<>>
    /\ committed = {}
    /\ ui = 1
    /\ model = Unsolved
    /\ new_stack = Unsolved
    /\ analysed = {}
    /\ contributed = {}
    /\ consumed = [a \in Addrs |-> 0]
    /\ located = [a \in Addrs |-> "unasked"]

\* The bound a candidate constraint puts on the stack size: the floor that
\* keeps the access's address inside the grown frame (4.5), or the opposite
\* bound, the ceiling, of a candidate that cannot hold together with a floor
\* above it.
FloorOnly == {"floor"}
EitherBound == {"floor", "ceiling"}

\* The run on a binary whose candidates are the floors of 4.5.
InitWith(cfgs, ks, events) == InitForms(cfgs, ks, events, FloorOnly)

\* A 32-bit and a 64-bit binary of the entry point and one function, with
\* no name filter: the per-function analysis.
FuncConfigs ==
    {[arch |-> a, entry |-> 12, funcs |-> {11, 12}, succs |-> <<>>,
      whitelist |-> {}, blacklist |-> {}] : a \in {"X86", "AMD64"}}
Init == InitWith(FuncConfigs, Events, MaxEvents)

\* The same analysis with and without the stack-args convention, on 32-bit
\* binaries.
SlotConfigs ==
    {[arch |-> a, entry |-> 12, funcs |-> {11, 12}, succs |-> <<>>,
      whitelist |-> {}, blacklist |-> {}] : a \in {"X86", "MIPS32"}}
InitSlots == InitWith(SlotConfigs, SlotEvents, MaxEventsSlots)

\* A 64-bit binary of the entry point and two functions with no name
\* filter, and events enough for both functions to be resized.
AppendConfigs ==
    {[arch |-> "AMD64", entry |-> 12, funcs |-> Addrs, succs |-> <<>>,
      whitelist |-> {}, blacklist |-> {}]}
InitAppend == InitWith(AppendConfigs, OrchEvents, MaxEventsAppend)

\* The per-function analysis on frames of 0x10 bytes with accesses at -0x14
\* and -0x18, whose candidates bound the stack size from either side: the
\* admission loop is run on candidates that exclude one another.
AdmitEvents == OrchEvents \cup {Ev("STACK_ACCESS", -24, 4, FALSE, 127)}
InitAdmit == InitForms(FuncConfigs, AdmitEvents, MaxEventsAdmit, EitherBound)

\* Every orchestrator configuration, on shorter streams of fewer kinds:
\* MIPS32 with every successor list, and a 64-bit binary whose entry point
\* calls a function.
OrchConfigs ==
    {c \in [arch : {"MIPS32", "AMD64"}, entry : EntryPoints, funcs : {Addrs},
            succs : SuccLists, whitelist : NameLists, blacklist : NameLists] :
        c.arch = "MIPS32" \/ c.succs = <<<<10, "Ijk_Call">>>>}
InitOrch == InitWith(OrchConfigs, OrchEvents, MaxEventsOrch)

\* MIPS32 binaries of the entry point and two functions, with and without
\* a stub, a whitelist and a blacklist: the runs followed to their end.
FairConfigs ==
    [arch : {"MIPS32"}, entry : EntryPoints, funcs : {Addrs},
     succs : {<<>>, <<<<10, "Ijk_Call">>>>},
     whitelist : {{}, {FuncName(11)}}, blacklist : {{}, {FuncName(10)}}]
InitFair == InitWith(FairConfigs, OrchEvents, MaxEventsOrch)

\* ------------------------------------------------------------ patch_stack
\* Lines 64-70: the last Ijk_Call successor of the entry point, on MIPS32.
RECURSIVE LastCall(_, _)
LastCall(ss, found) ==
    IF ss = <<>> THEN found
    ELSE LastCall(Tail(ss), IF Head(ss)[2] = "Ijk_Call" THEN Head(ss)[1] ELSE found)
DoNotTouch(a, ss) == IF a = "MIPS32" THEN LastCall(ss, NoAddr) ELSE NoAddr

\* Lines 56-73.
patch_stack ==
    /\ pc = "init"
    /\ stack_patch_data' = <<>>
    /\ todo' = funcs
    /\ do_not_touch' = DoNotTouch(arch, succs)
    /\ last_size' = 0
    /\ successes' = 0
    /\ pc' = "loop"
    /\ UNCHANGED <<cfgvars, budget, raised, report, funcvars, solvervars, histvars>>

\* Skipped with the blacklist test left out.
SkippedWhitelistOnly(f, sec) ==
    IF f = entry THEN TRUE
    ELSE IF f = do_not_touch THEN TRUE
    ELSE IF sec = None \/ sec # "text" THEN TRUE
    ELSE Cardinality(whitelist) > 0 /\ FuncName(f) \notin whitelist

\* Lines 76-98: the four tests that make the loop continue with the next
\* function, for the section sec that locate_physaddr answers.
Skipped(f, sec) ==
    IF f = entry THEN TRUE
    ELSE IF f = do_not_touch THEN TRUE
    ELSE IF sec = None \/ sec # "text" THEN TRUE
    ELSE (Cardinality(whitelist) > 0 /\ FuncName(f) \notin whitelist)
         \/ (Cardinality(blacklist) > 0 /\ FuncName(f) \in blacklist)

\* Lines 74-101 and 111-117: one iteration of the loop, up to the call.
loop_body(f, sec, tags) ==
    /\ pc = "loop"
    /\ f \in todo
    /\ todo' = todo \ {f}
    /\ located' = IF f = entry \/ f = do_not_touch THEN located
                  ELSE [located EXCEPT ![f] = sec]
    /\ IF Skipped(f, sec)
       THEN /\ tags = <<>>
            /\ UNCHANGED <<pc, budget, funcvars, solvervars, analysed, contributed,
                           consumed>>
       ELSE /\ funcaddr' = f
            /\ stream' = tags
            /\ budget' = budget - Len(tags)
            /\ pos' = 1
            /\ alloc_op' = NoBinding
            /\ dealloc_ops' = <<>>
            /\ variables' = EmptyVarList
            /\ constraints' = {}
            /\ unsafe_constraints' = <<>>
            /\ committed' = {}
            /\ ui' = 1
            /\ model' = Unsolved
            /\ new_stack' = Unsolved
            /\ analysed' = analysed \cup {f}
            /\ pc' = "classify"
            /\ UNCHANGED <<contributed, consumed>>
    /\ UNCHANGED <<cfgvars, raised, report, do_not_touch, last_size, successes,
                   stack_patch_data>>

\* after_call comparing the lengths with >= instead of >.
after_call_ge(data) ==
    /\ stack_patch_data' = data
    /\ IF Len(data) >= last_size
       THEN last_size' = Len(data) /\ successes' = successes + 1
       ELSE UNCHANGED <<last_size, successes>>
    /\ contributed' = IF data # stack_patch_data THEN contributed \cup {funcaddr}
                                                 ELSE contributed
    /\ pc' = "loop"
    /\ UNCHANGED <<cfgvars, budget, raised, report, do_not_touch, todo, analysed,
                   located>>

\* Lines 102-104, after patch_function_stack returned with the list data.
after_call(data) ==
    /\ stack_patch_data' = data
    /\ IF Len(data) > last_size
       THEN last_size' = Len(data) /\ successes' = successes + 1
       ELSE UNCHANGED <<last_size, successes>>
    /\ contributed' = IF data # stack_patch_data THEN contributed \cup {funcaddr}
                                                 ELSE contributed
    /\ pc' = "loop"
    /\ UNCHANGED <<cfgvars, budget, raised, report, do_not_touch, todo, analysed,
                   located>>

\* report_result leaving the loop while functions are still to come.
report_result_early ==
    /\ pc = "loop"
    /\ report' = IF successes = 0 THEN "error" ELSE "info"
    /\ pc' = "done"
    /\ UNCHANGED <<cfgvars, budget, raised, orchvars, stack_patch_data, funcvars,
                   solvervars, histvars>>

\* Lines 105-108.
report_result ==
    /\ pc = "loop"
    /\ todo = {}
    /\ report' = IF successes = 0 THEN "error" ELSE "info"
    /\ pc' = "done"
    /\ UNCHANGED <<cfgvars, budget, raised, orchvars, stack_patch_data, funcvars,
                   solvervars, histvars>>

\* An exception leaves patch_function_stack and patch_stack.
raise(err) ==
    /\ raised' = err
    /\ pc' = "fatal"
    /\ UNCHANGED <<cfgvars, budget, report, orchvars, stack_patch_data, analysed,
                   contributed, located>>

\* ------------------------------------------------------------ tag classifier
AtEvent == pc = "classify" /\ pos <= Len(stream)
CurBind == Bind(stream[pos], pos)
Consume == consumed' = [consumed EXCEPT ![funcaddr] = @ + 1]

\* CanonicalAlloc keeping the allocation read last, larger or not.
CanonicalAllocLatest(cur, b) == b

\* CanonicalAlloc with <= for <: the last allocation wins a tie.
CanonicalAllocLast(cur, b) ==
    IF cur = NoBinding THEN b
    ELSE IF b.value <= cur.value THEN b
    ELSE cur

\* Lines 123-126: keep the allocation with the most negative value.
CanonicalAlloc(cur, b) ==
    IF cur = NoBinding THEN b
    ELSE IF b.value < cur.value THEN b
    ELSE cur

\* IsUnsafe testing the end of the access instead of its offset.
IsUnsafeEnd(b, vl) == b.value + b.width < -vl.stack_size

\* Line 136: the flag handed to the Access constructor.
IsUnsafe(b, vl) == b.value < -vl.stack_size

Max(a, b) == IF a >= b THEN a ELSE b
Min(a, b) == IF a <= b THEN a ELSE b

\* Access.__init__: the access adds itself to the variable tracker, to the
\* variable keyed by its offset or to a new one.
AddAccess(vl, b, unsafe) ==
    LET acc == [offset |-> b.value, width |-> b.width, unsafe |-> unsafe,
                memaddr |-> b.memaddr]
        old == {v \in vl.vars : v.offset = b.value}
        new == IF old = {}
               THEN {[offset |-> b.value, size |-> b.width, special |-> FALSE]}
               ELSE {[v EXCEPT !.size = Max(@, b.width)] : v \in old}
    IN [vl EXCEPT !.accesses = Append(@, acc),
                  !.vars = (@ \ old) \cup new]

\* Line 119.
skip_empty ==
    /\ AtEvent
    /\ stream[pos].tag = ""
    /\ pos' = pos + 1
    /\ Consume
    /\ UNCHANGED <<cfgvars, budget, pc, raised, report, orchvars, stack_patch_data,
                   funcaddr, stream, alloc_op, dealloc_ops, variables, solvervars,
                   analysed, contributed, located>>

\* Lines 122-127.
classify_alloc ==
    /\ AtEvent
    /\ stream[pos].tag = "STACK_ALLOC"
    /\ alloc_op' = CanonicalAlloc(alloc_op, CurBind)
    /\ variables' = [variables EXCEPT !.stack_size = -(alloc_op'.value)]
    /\ pos' = pos + 1
    /\ Consume
    /\ UNCHANGED <<cfgvars, budget, pc, raised, report, orchvars, stack_patch_data,
                   funcaddr, stream, dealloc_ops, solvervars, analysed, contributed, located>>

\* classify_dealloc queueing every Dealloc, symbolic or not.
classify_dealloc_all ==
    /\ AtEvent
    /\ stream[pos].tag = "STACK_DEALLOC"
    /\ dealloc_ops' = Append(dealloc_ops, CurBind)
    /\ pos' = pos + 1
    /\ Consume
    /\ UNCHANGED <<cfgvars, budget, pc, raised, report, orchvars, stack_patch_data,
                   funcaddr, stream, alloc_op, variables, solvervars, analysed,
                   contributed, located>>

\* Lines 129-132.
classify_dealloc ==
    /\ AtEvent
    /\ stream[pos].tag = "STACK_DEALLOC"
    /\ dealloc_ops' = IF ~stream[pos].symbolic THEN dealloc_ops
                      ELSE Append(dealloc_ops, CurBind)
    /\ pos' = pos + 1
    /\ Consume
    /\ UNCHANGED <<cfgvars, budget, pc, raised, report, orchvars, stack_patch_data,
                   funcaddr, stream, alloc_op, variables, solvervars, analysed,
                   contributed, located>>

\* classify_access registering an access only when it is flagged unsafe.
classify_access_unsafe_only ==
    /\ AtEvent
    /\ stream[pos].tag = "STACK_ACCESS"
    /\ variables' = IF IsUnsafe(CurBind, variables)
                    THEN AddAccess(variables, CurBind, TRUE)
                    ELSE variables
    /\ pos' = pos + 1
    /\ Consume
    /\ UNCHANGED <<cfgvars, budget, pc, raised, report, orchvars, stack_patch_data,
                   funcaddr, stream, alloc_op, dealloc_ops, solvervars, analysed,
                   contributed, located>>

\* Lines 134-136.
classify_access ==
    /\ AtEvent
    /\ stream[pos].tag = "STACK_ACCESS"
    /\ variables' = AddAccess(variables, CurBind, IsUnsafe(CurBind, variables))
    /\ pos' = pos + 1
    /\ Consume
    /\ UNCHANGED <<cfgvars, budget, pc, raised, report, orchvars, stack_patch_data,
                   funcaddr, stream, alloc_op, dealloc_ops, solvervars, analysed,
                   contributed, located>>

\* classify_alloca going on with the next event instead of returning.
classify_alloca_continue ==
    /\ AtEvent
    /\ stream[pos].tag = "STACK_ALLOCA"
    /\ pos' = pos + 1
    /\ Consume
    /\ UNCHANGED <<cfgvars, budget, pc, raised, report, orchvars, stack_patch_data,
                   funcaddr, stream, alloc_op, dealloc_ops, variables, solvervars,
                   analysed, contributed, located>>

\* Lines 138-140: the function returns, the rest of the stream is not read.
classify_alloca ==
    /\ AtEvent
    /\ stream[pos].tag = "STACK_ALLOCA"
    /\ after_call(stack_patch_data)
    /\ Consume
    /\ UNCHANGED <<funcvars, solvervars>>

\* classify_other skipping the tag instead of raising.
classify_other_ignore ==
    /\ AtEvent
    /\ stream[pos].tag \notin KnownTags \cup {""}
    /\ pos' = pos + 1
    /\ Consume
    /\ UNCHANGED <<cfgvars, budget, pc, raised, report, orchvars, stack_patch_data,
                   funcaddr, stream, alloc_op, dealloc_ops, variables, solvervars,
                   analysed, contributed, located>>

\* Lines 142-143.
classify_other ==
    /\ AtEvent
    /\ stream[pos].tag \notin KnownTags \cup {""}
    /\ raise("FidgetUnsupportedError")
    /\ Consume
    /\ UNCHANGED <<funcvars, solvervars>>

\* ------------------------------------------------------------ frame
\* patch_function_stack goes on in itself.
goto(p) ==
    /\ pc' = p
    /\ UNCHANGED <<cfgvars, budget, raised, report, orchvars, stack_patch_data,
                   histvars>>

\* Lines 156-162: the offsets marked special, walking up from i by step.
RECURSIVE SpecialSlots(_, _, _)
SpecialSlots(keys, i, step) ==
    IF i \in keys THEN {i} \cup SpecialSlots(keys, i + step, step) ELSE {}

\* Lines 154-162.
MarkSpecial(vl, a) ==
    IF ConventionStackArgs(a)
    THEN LET marked == SpecialSlots({v.offset : v \in vl.vars}, vl.stack_size,
                                    NativeWord(a))
         IN [vl EXCEPT !.vars = {[v EXCEPT !.special = @ \/ (v.offset \in marked)]
                                   : v \in vl.vars}]
    ELSE vl

\* HasVars with >= instead of >.
HasVarsAlways(vl) == Cardinality(vl.vars) >= 0

\* Lines 164-165: num_vars > 0.
HasVars(vl) == Cardinality(vl.vars) > 0

\* Lines 145-176, at the end of the stream.
frame_check ==
    /\ pc = "classify"
    /\ pos > Len(stream)
    /\ IF alloc_op = NoBinding
       THEN after_call(stack_patch_data) /\ UNCHANGED <<variables, consumed>>
       ELSE /\ variables' = MarkSpecial(variables, arch)
            /\ IF HasVars(variables')
               THEN goto("model")
               ELSE after_call(stack_patch_data) /\ UNCHANGED consumed
    /\ UNCHANGED <<funcaddr, stream, pos, alloc_op, dealloc_ops, solvervars>>

\* VarList.collapse and mark_sizes: overlapping variables become one, keyed
\* at the lowest offset and as wide as the accesses it covers.
Overlap(u, v) == u # v /\ u.offset < v.offset + v.size /\ v.offset < u.offset + u.size
Merge(u, v) ==
    LET lo == Min(u.offset, v.offset)
        hi == Max(u.offset + u.size, v.offset + v.size)
    IN [offset |-> lo, size |-> hi - lo, special |-> u.special \/ v.special]
RECURSIVE Collapse(_)
Collapse(vs) ==
    IF \E u \in vs, v \in vs : Overlap(u, v)
    THEN LET u == CHOOSE u \in vs : \E v \in vs : Overlap(u, v)
             v == CHOOSE v \in vs : Overlap(u, v)
         IN Collapse((vs \ {u, v}) \cup {Merge(u, v)})
    ELSE vs

\* InstrBinding.apply_constraints: the instruction's own effect, its
\* immediate is encodable; lines 187 and 190 make that immediate the frame
\* size, so the range is one of S.
ApplyConstraints(b) == {Con("le", b.limit)}

\* Baseline without the alignment constraint of line 184.
BaselineNoAlign(vl, a, ds, word) ==
    {Con("ge", vl.stack_size),
     Con("le", vl.stack_size + (GrowthPerVar * Cardinality(vl.vars) + GrowthSlack))}
    \cup ApplyConstraints(a)
    \cup UNION {ApplyConstraints(ds[i]) : i \in 1..Len(ds)}

\* Lines 182-190: the baseline constraints.
Baseline(vl, a, ds, word) ==
    {Con("ge", vl.stack_size),
     Con("le", vl.stack_size + (GrowthPerVar * Cardinality(vl.vars) + GrowthSlack)),
     Con("mod", word \div BitsPerByte)}
    \cup ApplyConstraints(a)
    \cup UNION {ApplyConstraints(ds[i]) : i \in 1..Len(ds)}

\* A variable's address expression once the tracker is linked: its offset
\* from the frame's top, taken from the stack pointer of a frame of the
\* given size (4.4: the expression names the size, not the constant).
VarAddress(offset, size) == offset + size

\* The candidate constraint of an access flagged unsafe keeps its address
\* inside the grown frame (4.5): VarAddress(acc.offset, S) >= 0, which of
\* the one unknown S asks S >= -offset.
UnsafeConstraint(acc) == Con("ge", -acc.offset)

\* The candidate of an access under one form: the floor is the constraint
\* of 4.5, the ceiling holds the stack size at the access's offset.
Candidate(acc, form) ==
    IF form = "floor" THEN UnsafeConstraint(acc) ELSE Con("le", -acc.offset)

\* VarList.sym_link: the lists of candidate constraints the tracker may
\* build, one candidate for each access flagged unsafe, in discovery order,
\* each of a form of fs.
RECURSIVE CandidateLists(_, _)
CandidateLists(accs, fs) ==
    IF accs = <<>> THEN {<<>>}
    ELSE LET rest == CandidateLists(Tail(accs), fs)
         IN IF Head(accs).unsafe
            THEN {<<Candidate(Head(accs), f)>> \o r : f \in fs, r \in rest}
            ELSE rest

\* Lines 178-194.
build_model ==
    /\ pc = "model"
    /\ LET collapsed == [variables EXCEPT !.vars = Collapse(@)]
       IN /\ constraints' = Baseline(collapsed, alloc_op, dealloc_ops, NativeWord(arch))
          /\ variables' = [collapsed EXCEPT !.old_size = collapsed.stack_size,
                                            !.linked = TRUE]
          /\ unsafe_constraints' \in CandidateLists(collapsed.accesses, forms)
    /\ goto("baseline")
    /\ UNCHANGED <<funcaddr, stream, pos, alloc_op, dealloc_ops, committed, ui, model,
                   new_stack>>

\* check_baseline logging the failure and going on instead of raising.
check_baseline_swallow ==
    /\ pc = "baseline"
    /\ model' \in IF Satisfiable(constraints) THEN Models(constraints) ELSE {Unsolved}
    /\ goto("admit")
    /\ UNCHANGED <<funcvars, constraints, unsafe_constraints, committed, ui, new_stack>>

\* Lines 201-203: the solver finds some model of the baseline, or none.
check_baseline ==
    /\ pc = "baseline"
    /\ IF Satisfiable(constraints)
       THEN /\ model' \in Models(constraints)
            /\ goto("admit")
            /\ UNCHANGED consumed
       ELSE /\ raise("FidgetError")
            /\ UNCHANGED <<model, consumed>>
    /\ UNCHANGED <<funcvars, constraints, unsafe_constraints, committed, ui, new_stack>>

\* Admits answered from the model the solver happens to hold.
AdmitsCached(cs, c, m) == Holds(c, m)

\* Line 207: symrepr.satisfiable(extra_constraints=[constraint]); m is the
\* model the solver holds from its last query.
Admits(cs, c, m) == Satisfiable(cs \cup {c})

\* admit committing every candidate without asking the solver.
admit_commit_all ==
    /\ pc = "admit"
    /\ ui <= Len(unsafe_constraints)
    /\ LET cs == constraints \cup {unsafe_constraints[ui]}
       IN /\ constraints' = cs
          /\ committed' = committed \cup {ui}
          /\ model' \in IF Satisfiable(cs) THEN Models(cs) ELSE {Unsolved}
    /\ ui' = ui + 1
    /\ goto("admit")
    /\ UNCHANGED <<funcvars, unsafe_constraints, new_stack>>

\* admit testing each candidate against the baseline alone, and not
\* against the candidates committed before it.
admit_against_baseline ==
    /\ pc = "admit"
    /\ ui <= Len(unsafe_constraints)
    /\ LET c == unsafe_constraints[ui]
           base == Baseline(variables, alloc_op, dealloc_ops, NativeWord(arch))
       IN IF Satisfiable(base \cup {c})
          THEN /\ constraints' = constraints \cup {c}
               /\ committed' = committed \cup {ui}
               /\ model' \in IF Satisfiable(constraints \cup {c})
                              THEN Models(constraints \cup {c}) ELSE {Unsolved}
          ELSE UNCHANGED <<constraints, committed, model>>
    /\ ui' = ui + 1
    /\ goto("admit")
    /\ UNCHANGED <<funcvars, unsafe_constraints, new_stack>>

\* Lines 206-211: one pass of the admission loop.
admit ==
    /\ pc = "admit"
    /\ ui <= Len(unsafe_constraints)
    /\ LET c == unsafe_constraints[ui]
       IN IF Admits(constraints, c, model)
          THEN /\ constraints' = constraints \cup {c}
               /\ committed' = committed \cup {ui}
               /\ model' \in Models(constraints \cup {c})
          ELSE UNCHANGED <<constraints, committed, model>>
    /\ ui' = ui + 1
    /\ goto("admit")
    /\ UNCHANGED <<funcvars, unsafe_constraints, new_stack>>

\* extract without the test of line 214: every solved size is emitted.
extract_always_emit ==
    /\ pc = "admit"
    /\ ui > Len(unsafe_constraints)
    /\ new_stack' \in Models(constraints)
    /\ model' = new_stack'
    /\ goto("emit")
    /\ UNCHANGED <<funcvars, constraints, unsafe_constraints, committed, ui>>

\* Lines 213-216: symrepr.any gives one model value of the stack size.
extract ==
    /\ pc = "admit"
    /\ ui > Len(unsafe_constraints)
    /\ new_stack' \in Models(constraints)
    /\ model' = new_stack'
    /\ IF new_stack' = variables.old_size
       THEN after_call(stack_patch_data) /\ UNCHANGED consumed
       ELSE goto("emit")
    /\ UNCHANGED <<funcvars, constraints, unsafe_constraints, committed, ui>>

\* ------------------------------------------------------------ emission
Patch(k, addr, val) == [kind |-> k, func |-> funcaddr, memaddr |-> addr, val |-> val]

RECURSIVE SortedSeq(_)
SortedSeq(S) ==
    IF S = {} THEN <<>>
    ELSE LET m == CHOOSE x \in S : \A y \in S : x <= y
         IN <<m>> \o SortedSeq(S \ {m})

\* InstrBinding.get_patch_data of the allocation and of a deallocation.
OpPatch(k, b, S) == <<Patch(k, b.memaddr, S)>>

RECURSIVE DeallocPatches(_, _)
DeallocPatches(ds, S) ==
    IF ds = <<>> THEN <<>>
    ELSE OpPatch("dealloc", Head(ds), S) \o DeallocPatches(Tail(ds), S)

\* The accesses of one variable, as patch records: each instruction is
\* given the address its access has under the solved size.
RECURSIVE AccessPatches(_, _)
AccessPatches(accs, S) ==
    IF accs = <<>> THEN <<>>
    ELSE <<Patch("var", Head(accs).memaddr, VarAddress(Head(accs).offset, S))>>
         \o AccessPatches(Tail(accs), S)

\* The concrete address of a variable under the solved size S: a special
\* variable keeps the address it had, every other follows its expression.
SolvedAddress(vl, v, S) ==
    IF v.special THEN VarAddress(v.offset, vl.old_size) ELSE VarAddress(v.offset, S)
\* 4.7: the variable's concrete address changed from its pre-resize value.
Moved(vl, v, S) == SolvedAddress(vl, v, S) # VarAddress(v.offset, vl.old_size)

\* VarList.get_patches: a record for the instructions of every variable
\* whose address changed, in address order.
RECURSIVE VarPatches(_, _, _)
VarPatches(vl, offs, S) ==
    IF offs = <<>> THEN <<>>
    ELSE LET v == CHOOSE v \in vl.vars : v.offset = Head(offs)
             mine == SelectSeq(vl.accesses,
                               LAMBDA a : v.offset <= a.offset
                                          /\ a.offset < v.offset + v.size)
         IN (IF Moved(vl, v, S) THEN AccessPatches(mine, S) ELSE <<>>)
            \o VarPatches(vl, Tail(offs), S)

\* Lines 225-229: what one function appends.
Emitted(a, ds, vl, S) ==
    OpPatch("alloc", a, S)
    \o DeallocPatches(ds, S)
    \o VarPatches(vl, SortedSeq({v.offset : v \in vl.vars}), S)

\* emit assigning the function's records to the list instead of adding them.
emit_overwrite ==
    /\ pc = "emit"
    /\ after_call(Emitted(alloc_op, dealloc_ops, variables, new_stack))
    /\ UNCHANGED <<funcvars, solvervars, consumed>>

\* Lines 218-229.
emit ==
    /\ pc = "emit"
    /\ after_call(stack_patch_data \o Emitted(alloc_op, dealloc_ops, variables, new_stack))
    /\ UNCHANGED <<funcvars, solvervars, consumed>>

\* ------------------------------------------------------------ specification
Next ==
    \/ patch_stack
    \/ \E f \in todo, sec \in Sections, tags \in Streams(kinds, budget) :
           loop_body(f, sec, tags)
    \/ report_result
    \/ skip_empty
    \/ classify_alloc
    \/ classify_dealloc
    \/ classify_access
    \/ classify_alloca
    \/ classify_other
    \/ frame_check
    \/ build_model
    \/ check_baseline
    \/ admit
    \/ extract
    \/ emit

Spec == Init /\ [][Next]_vars
SpecOrch == InitOrch /\ [][Next]_vars
SpecSlots == InitSlots /\ [][Next]_vars
SpecAppend == InitAppend /\ [][Next]_vars
SpecAdmit == InitAdmit /\ [][Next]_vars
\* patch_stack is a sequential program that keeps running: a step that can
\* be taken is taken.
SpecOrchFair == InitFair /\ [][Next]_vars /\ WF_vars(Next)

TypeOK == pc \in {"init", "loop", "classify", "model", "baseline", "admit", "emit",
                  "done", "fatal"}

\* ------------------------------------------------------------ properties
\* The function last handed to patch_function_stack, and how far it got.
Called == funcaddr # NoAddr
Returned == Called /\ pc \in {"loop", "done"}
Count(t) == Cardinality({i \in 1..Len(stream) : stream[i].tag = t})
Unknown(i) == stream[i].tag \notin KnownTags \cup {""}
HasAlloca == \E i \in 1..Len(stream) : stream[i].tag = "STACK_ALLOCA"
HasUnknown == \E i \in 1..Len(stream) : Unknown(i)
FirstAlloca == CHOOSE i \in 1..Len(stream) :
                   /\ stream[i].tag = "STACK_ALLOCA"
                   /\ \A j \in 1..(i - 1) : stream[j].tag # "STACK_ALLOCA"
FirstUnknown == CHOOSE i \in 1..Len(stream) :
                    Unknown(i) /\ \A j \in 1..(i - 1) : ~Unknown(j)
WordBytes == NativeWord(arch) \div 8
OriginalSize == -alloc_op.value
NumVariables == Cardinality(variables.vars)
BaselineNow == Baseline(variables, alloc_op, dealloc_ops, NativeWord(arch))
AdmissionDone == /\ variables.linked
                 /\ pc \in {"admit", "emit", "loop", "done"}
                 /\ ui > Len(unsafe_constraints)

\* C1: every extracted stack size S satisfies S >= originalSize,
\* S mod wordSize = 0 and S <= originalSize + 16*N + 32, whatever unsafe
\* constraints were committed.
C1_SolvedSizeBounds ==
    new_stack # Unsolved =>
        /\ new_stack >= OriginalSize
        /\ new_stack % WordBytes = 0
        /\ new_stack <= OriginalSize + 16 * NumVariables + 32

\* C1 witness: a size was extracted with an unsafe constraint committed,
\* for variables that collapsed, and the frame grew.
C1_Witness ==
    /\ new_stack # Unsolved
    /\ committed # {}
    /\ NumVariables < Len(variables.accesses)
    /\ new_stack > OriginalSize

\* C2 (as claimed): when no access is flagged unsafe, the extracted size is
\* the original frame size and the function appends no PatchRecord, for
\* every value the solver may return.
C2_SafeFrameKeepsSize ==
    (/\ new_stack # Unsolved
     /\ \A i \in 1..Len(variables.accesses) : ~variables.accesses[i].unsafe)
    => (new_stack = OriginalSize /\ funcaddr \notin contributed)

\* Scenario B: one Alloc of 0x10 bytes and one Access at -0x14 of width 4.
ScenarioB ==
    /\ Called
    /\ Count("STACK_ALLOC") = 1
    /\ Count("STACK_ACCESS") = 1
    /\ ~HasAlloca
    /\ ~HasUnknown
    /\ \A i \in 1..Len(stream) :
          /\ stream[i].tag = "STACK_ALLOC" => stream[i].value = -16
          /\ stream[i].tag = "STACK_ACCESS" =>
                 stream[i].value = -20 /\ stream[i].width = 4

\* What scenario B leaves behind, but for the bound on the solved size:
\* the access flagged unsafe, its constraint committed, the size
\* word-aligned, records for the allocation instruction and the variable.
ScenarioBPatched ==
        /\ Len(variables.accesses) = 1
        /\ variables.accesses[1].unsafe
        /\ Len(unsafe_constraints) = 1
        /\ committed = {1}
        /\ new_stack % WordBytes = 0
        /\ \E i \in 1..Len(stack_patch_data) :
              /\ stack_patch_data[i].kind = "alloc"
              /\ stack_patch_data[i].func = funcaddr
              /\ stream[stack_patch_data[i].memaddr].tag = "STACK_ALLOC"
        /\ \E i \in 1..Len(stack_patch_data) :
              /\ stack_patch_data[i].kind = "var"
              /\ stack_patch_data[i].func = funcaddr
              /\ stream[stack_patch_data[i].memaddr].tag = "STACK_ACCESS"

RECURSIVE GreedyFrom(_, _, _)
GreedyFrom(cs, ucs, i) ==
    IF i > Len(ucs) THEN {}
    ELSE IF Satisfiable(cs \cup {ucs[i]})
         THEN {i} \cup GreedyFrom(cs \cup {ucs[i]}, ucs, i + 1)
         ELSE GreedyFrom(cs, ucs, i + 1)

\* C4: the committed subset is the same in every run on the same ordered
\* inputs: it is a function of the baseline and the ordered candidates, and
\* never of the model the solver holds.
C4_AdmissionDeterministic ==
    AdmissionDone => committed = GreedyFrom(BaselineNow, unsafe_constraints, 1)

\* C4 witness: admission ended over two candidates, with one committed,
\* the solver having had several models of the baseline to choose from.
C4_Witness ==
    /\ AdmissionDone
    /\ Len(unsafe_constraints) >= 2
    /\ committed # {}
    /\ Cardinality(Models(BaselineNow)) > 1

\* C5: a function whose stream has no Alloc, or no Access, builds no
\* constraint model and appends no PatchRecord.
C5_NeedsAllocAndAccess ==
    (Called /\ (Count("STACK_ALLOC") = 0 \/ Count("STACK_ACCESS") = 0)) =>
        /\ pc \in {"classify", "loop", "done", "fatal"}
        /\ ~variables.linked
        /\ constraints = {}
        /\ new_stack = Unsolved
        /\ funcaddr \notin contributed

\* C5 witness: a function with an Alloc and no Access was read to the end
\* and returned.
C5_Witness ==
    /\ Returned
    /\ Count("STACK_ALLOC") > 0
    /\ Count("STACK_ACCESS") = 0
    /\ pos > Len(stream)

\* What stopping at the first Alloca tag means.
AllocaStops ==
    /\ pos <= FirstAlloca
    /\ consumed[funcaddr] <= FirstAlloca
    /\ constraints = {}
    /\ model = Unsolved
    /\ funcaddr \notin contributed
    /\ raised = None
    /\ pc \in {"classify", "loop", "done"}
    /\ consumed[funcaddr] = FirstAlloca => pc \in {"loop", "done"}

\* C6 (as claimed): a stream that contains an Alloca tag is analysed up to
\* that tag and no further, nothing is solved or appended, no error is
\* raised and the orchestrator goes on.
C6_AllocaStopsAlways == (Called /\ HasAlloca) => AllocaStops

\* C6 (amended): the same, when no unsupported tag precedes the Alloca.
C6_AllocaStopsWhenReached ==
    (Called /\ HasAlloca /\ \A j \in 1..(FirstAlloca - 1) : ~Unknown(j))
    => AllocaStops

\* C6 witness: the function returned at an Alloca tag with events left
\* unread and another function still to come.
C6_Witness ==
    /\ Called
    /\ HasAlloca
    /\ consumed[funcaddr] = FirstAlloca
    /\ FirstAlloca < Len(stream)
    /\ pc = "loop"
    /\ todo # {}

\* What the fatal unsupported-tag error means.
UnknownRaises ==
    \/ pc = "classify" /\ pos <= FirstUnknown
    \/ /\ pc = "fatal"
       /\ raised = "FidgetUnsupportedError"
       /\ pos = FirstUnknown
       /\ report = None

\* C7 (as claimed): a stream that contains an unsupported tag makes
\* patch_function_stack raise the fatal error that aborts the run.
C7_UnknownAlwaysRaises == (Called /\ HasUnknown) => UnknownRaises

\* C7 (amended): the same, when no Alloca tag precedes the unsupported tag.
C7_UnknownRaisesWhenReached ==
    (/\ Called
     /\ HasUnknown
     /\ \A j \in 1..(FirstUnknown - 1) : stream[j].tag # "STACK_ALLOCA")
    => UnknownRaises

\* C7 witness: the run was aborted at an unsupported tag that followed
\* other events.
C7_Witness ==
    /\ pc = "fatal"
    /\ raised = "FidgetUnsupportedError"
    /\ HasUnknown
    /\ FirstUnknown > 1

\* C8: an unsatisfiable baseline is found before any unsafe constraint is
\* tested: the fatal error is raised, nothing is committed or appended.
C8_BaselineFirst ==
    variables.linked =>
        IF Satisfiable(BaselineNow)
        THEN pc = "admit" => model \in Models(BaselineNow)
        ELSE /\ pc \in {"baseline", "fatal"}
             /\ pc = "fatal" => raised = "FidgetError"
             /\ ui = 1
             /\ committed = {}
             /\ constraints = BaselineNow
             /\ model = Unsolved
             /\ new_stack = Unsolved
             /\ funcaddr \notin contributed

\* C8 witness: the baseline was unsatisfiable, with unsafe constraints
\* waiting, and the fatal error was raised.
C8_Witness ==
    /\ pc = "fatal"
    /\ raised = "FidgetError"
    /\ Len(unsafe_constraints) > 0

\* The entry point's call successor the loop of lines 66-69 is left with:
\* the last one.
CallIndexes == {j \in 1..Len(succs) : succs[j][2] = "Ijk_Call"}
StubTargets == {succs[i][1] : i \in {j \in CallIndexes : \A m \in CallIndexes : m <= j}}
MayAnalyse(f) ==
    /\ f # entry
    /\ ~(arch = "MIPS32" /\ f \in StubTargets)
    /\ located[f] = "text"
    /\ (whitelist = {} \/ FuncName(f) \in whitelist)
    /\ FuncName(f) \notin blacklist

\* C9: a function is handed to patch_function_stack, and its stream read,
\* only if it is not the entry point, not the MIPS stub, in the text
\* section, on the whitelist (if there is one) and not on the blacklist.
C9_OnlyAdmissible ==
    \A f \in Addrs : (f \in analysed \/ consumed[f] > 0) => MayAnalyse(f)

\* C9 witness: a function was analysed on MIPS32 with a stub and both lists
\* in use.
C9_Witness ==
    \E f \in analysed :
        /\ consumed[f] > 0
        /\ arch = "MIPS32"
        /\ StubTargets # {}
        /\ whitelist # {}
        /\ blacklist # {}

\* C10: at the end of a run the success counter is the number of analysed
\* functions that appended records; zero is reported as a failure without
\* raising and with an empty patch list, otherwise the count is reported.
C10_SuccessCount ==
    pc = "done" =>
        /\ successes = Cardinality(contributed)
        /\ contributed \subseteq analysed
        /\ raised = None
        /\ report = IF Cardinality(contributed) = 0 THEN "error" ELSE "info"
        /\ Cardinality(contributed) = 0 => stack_patch_data = <<>>

\* C10 witness: two functions were analysed and one of them appended.
C10_Witness ==
    /\ pc = "done"
    /\ Cardinality(analysed) = 2
    /\ successes = 1

\* C11: a solved size equal to the original (pre-link) frame size ends the
\* function with no patch, committed unsafe constraints or not; so every
\* function that appended records solved a size strictly greater than its
\* original frame size.
C11_NoPatchAtOriginalSize ==
    /\ (new_stack # Unsolved /\ new_stack = variables.old_size) =>
           (pc # "emit" /\ funcaddr \notin contributed)
    /\ (Called /\ funcaddr \in contributed) =>
           (new_stack # Unsolved /\ new_stack > variables.old_size)

\* C11 witness: the function returned with the original size solved although
\* an unsafe constraint had been committed.
C11_Witness ==
    /\ Returned
    /\ new_stack # Unsolved
    /\ new_stack = variables.old_size
    /\ committed # {}
    /\ stack_patch_data = <<>>

\* The accesses flagged unsafe, in the order the classifier read them, and
\* the candidates committed before the i-th was tested.
UnsafeAccesses == SelectSeq(variables.accesses, LAMBDA a : a.unsafe)
CommittedBefore(i) == {unsafe_constraints[j] : j \in {k \in committed : k < i}}
TestedWith(i) == BaselineNow \cup CommittedBefore(i)

\* C12: the candidates are tested in discovery order; the i-th is committed
\* exactly when it is satisfiable with the baseline and the candidates
\* committed before it; a rejected one raises nothing and leaves the
\* committed set as it was; of two candidates that cannot both join the
\* set, the earlier satisfiable one is committed and the later is not.
C12_GreedyInOrder ==
    variables.linked =>
        /\ Len(unsafe_constraints) = Len(UnsafeAccesses)
        /\ \A k \in 1..Len(unsafe_constraints) :
               /\ unsafe_constraints[k] \in {Candidate(UnsafeAccesses[k], f) : f \in forms}
               /\ k > 1 => UnsafeAccesses[k - 1].memaddr < UnsafeAccesses[k].memaddr
        /\ committed \subseteq 1..(ui - 1)
        /\ \A i \in 1..(ui - 1) :
               i \in committed <=>
                   Satisfiable(TestedWith(i) \cup {unsafe_constraints[i]})
        /\ constraints = BaselineNow \cup {unsafe_constraints[j] : j \in committed}
        /\ ui > 1 => (raised = None /\ pc # "fatal")
        /\ \A i \in 1..(ui - 1), j \in 1..(ui - 1) :
               (/\ i < j
                /\ Satisfiable(TestedWith(i) \cup {unsafe_constraints[i]})
                /\ ~Satisfiable(TestedWith(i) \cup {unsafe_constraints[i],
                                                     unsafe_constraints[j]}))
               => (i \in committed /\ j \notin committed)

\* C12 witness: in the loop over two candidates, each satisfiable with the
\* baseline alone and not with the other, the first was committed and the
\* second discarded, and nothing was raised.
C12_Witness ==
    /\ pc = "admit"
    /\ variables.linked
    /\ ui = 3
    /\ committed = {1}
    /\ raised = None
    /\ Satisfiable(BaselineNow \cup {unsafe_constraints[1]})
    /\ Satisfiable(BaselineNow \cup {unsafe_constraints[2]})
    /\ ~Satisfiable(BaselineNow \cup {unsafe_constraints[1], unsafe_constraints[2]})

\* The Alloc events the classifier has read of the current stream, and the
\* first of those with the most negative value.
AllocsSeen == {i \in 1..(pos - 1) : stream[i].tag = "STACK_ALLOC"}
LargestAlloc ==
    CHOOSE i \in AllocsSeen :
        \A j \in AllocsSeen :
            \/ stream[i].value < stream[j].value
            \/ (stream[i].value = stream[j].value /\ i <= j)

\* C13, after every prefix of the stream: the canonical allocation is the
\* first Alloc with the most negative value seen so far and the tracker's
\* stack size is the negation of that value (0 before any Alloc).
CanonicalIsLargest ==
    IF AllocsSeen = {}
    THEN alloc_op = NoBinding /\ variables.stack_size = 0
    ELSE /\ alloc_op = Bind(stream[LargestAlloc], LargestAlloc)
         /\ variables.stack_size = -stream[LargestAlloc].value
         /\ \A i \in AllocsSeen : variables.stack_size >= -stream[i].value

\* C13: the canonical allocation is the largest seen so far, the first on
\* ties, the stack size is its magnitude, and no step of the classifier
\* makes the stack size smaller.
C13_CanonicalAlloc ==
    /\ []CanonicalIsLargest
    /\ [][pc = "classify" => variables'.stack_size >= variables.stack_size]_vars

\* C13 witness: the stream was read to its end; the canonical allocation
\* superseded an earlier one and was not superseded by a later one.
C13_Witness ==
    /\ pc = "classify"
    /\ pos > Len(stream)
    /\ \E i \in AllocsSeen, j \in AllocsSeen :
           i < alloc_op.memaddr /\ alloc_op.memaddr < j

\* The Access events read so far, in stream order, and the tracker's stack
\* size at the moment event i is read: the largest magnitude among the
\* Allocs before it, 0 when there is none.
AccessesSeen == SortedSeq({i \in 1..(pos - 1) : stream[i].tag = "STACK_ACCESS"})
SizeBefore(i) ==
    LET sizes == {0} \cup {-stream[j].value :
                              j \in {k \in 1..(i - 1) : stream[k].tag = "STACK_ALLOC"}}
    IN CHOOSE m \in sizes : \A n \in sizes : n <= m

\* C14: every Access event read is registered with the variable tracker,
\* and its flag is the answer, at the moment it was read, to "offset below
\* the negative of the stack size"; Allocs read later do not change it.
C14_UnsafeAtProcessingTime ==
    /\ Len(variables.accesses) = Len(AccessesSeen)
    /\ \A k \in 1..Len(AccessesSeen) :
           LET i == AccessesSeen[k]
               acc == variables.accesses[k]
           IN /\ acc.memaddr = i
              /\ acc.offset = stream[i].value
              /\ acc.width = stream[i].width
              /\ acc.unsafe <=> (stream[i].value < -SizeBefore(i))
              /\ \E v \in variables.vars :
                     v.offset <= acc.offset /\ acc.offset < v.offset + v.size

\* C14 witness: an access flagged unsafe before the Alloc lies inside the
\* frame the Alloc declared and is still flagged; a safe access is
\* registered as well.
C14_Witness ==
    \E k \in 1..Len(variables.accesses), l \in 1..Len(variables.accesses) :
        /\ variables.accesses[k].unsafe
        /\ variables.accesses[k].offset >= -variables.stack_size
        /\ alloc_op.memaddr > variables.accesses[k].memaddr
        /\ ~variables.accesses[l].unsafe

\* The offsets the walk of 4.2 visits when it steps by the word size in
\* bytes, the one of the alignment constraint.
SlotsByByteStep ==
    IF ConventionStackArgs(arch)
    THEN SpecialSlots({v.offset : v \in variables.vars}, variables.stack_size,
                      WordBytes)
    ELSE {}

\* C15 (as claimed): after special-slot detection the variables marked
\* special are exactly those at top, top+w, top+2w, ... up to the first
\* stepped offset with no variable, w being the word size in bytes of the
\* alignment constraint; none is marked when the convention is off, and
\* none before the detection ran.
C15_SpecialSlotsByteStep ==
    /\ pc = "model" =>
           \A v \in variables.vars : v.special <=> (v.offset \in SlotsByByteStep)
    /\ pc = "classify" => \A v \in variables.vars : ~v.special

\* The Dealloc events read so far whose observed value is symbolic, in
\* stream order, as bindings; the records of one kind in the patch list.
SymDeallocsSeen ==
    SortedSeq({i \in 1..(pos - 1) :
                  stream[i].tag = "STACK_DEALLOC" /\ stream[i].symbolic})
SymDeallocBinds ==
    [k \in 1..Len(SymDeallocsSeen) |->
        Bind(stream[SymDeallocsSeen[k]], SymDeallocsSeen[k])]
RecordsOf(kind) == SelectSeq(stack_patch_data, LAMBDA r : r.kind = kind)

\* C16: the queued Deallocs are the symbolic Deallocs of the stream, in
\* order; only they are constrained in the baseline and only they get a
\* record at emission; a function with none queued is still modelled,
\* solved and, when resized, patched with the alloc and variable records.
C16_SymbolicDeallocsOnly ==
    /\ dealloc_ops = SymDeallocBinds
    /\ variables.linked =>
           LET base == Baseline(variables, alloc_op, SymDeallocBinds, NativeWord(arch))
           IN /\ base \subseteq constraints
              /\ \A c \in constraints : c.op = "le" => c \in base
    /\ funcaddr \in contributed =>
           /\ Len(RecordsOf("dealloc")) = Len(SymDeallocsSeen)
           /\ \A k \in 1..Len(SymDeallocsSeen) :
                  RecordsOf("dealloc")[k].memaddr = SymDeallocsSeen[k]
    /\ (Returned /\ dealloc_ops = <<>> /\ new_stack # Unsolved
         /\ new_stack # variables.old_size) =>
           /\ raised = None
           /\ funcaddr \in contributed
           /\ Len(RecordsOf("alloc")) = 1
           /\ Len(RecordsOf("var")) > 0
           /\ Len(stack_patch_data) = 1 + Len(RecordsOf("var"))

\* C16 witness: a function whose only Dealloc is not symbolic was resized
\* and patched on the allocation side.
C16_Witness ==
    /\ Returned
    /\ \E i \in 1..Len(stream) :
           stream[i].tag = "STACK_DEALLOC" /\ ~stream[i].symbolic
    /\ dealloc_ops = <<>>
    /\ funcaddr \in contributed
    /\ RecordsOf("alloc") # <<>>

\* A function the orchestrator excludes: the entry point, the MIPS stub, a
\* function whose section was asked and is None or not text, one the lists
\* remove.
Excluded(f) ==
    \/ f = entry
    \/ (arch = "MIPS32" /\ f \in StubTargets)
    \/ located[f] \notin {"text", "unasked"}
    \/ (whitelist # {} /\ FuncName(f) \notin whitelist)
    \/ FuncName(f) \in blacklist

\* The run analysed every function it did not exclude.
AllAnalysed == \A f \in funcs : ~Excluded(f) => f \in analysed

\* C17 (as claimed): the analysis of a function always returns to the
\* orchestrator, and the run ends having analysed every candidate function
\* that was not excluded.
C17_AlwaysReturns ==
    /\ (pc = "classify") ~> (pc = "loop")
    /\ <>(pc = "done" /\ AllAnalysed)

\* C17 (amended): the analysis of a function returns to the orchestrator or
\* raises a fatal error that ends the run; a run that no fatal error ends
\* analyses every candidate function that was not excluded.
C17_ReturnsUnlessFatal ==
    /\ (pc = "classify") ~> (pc = "loop" \/ pc = "fatal")
    /\ <>(pc = "fatal" \/ (pc = "done" /\ AllAnalysed))
    /\ [](pc = "done" => AllAnalysed)

\* C17 witness: the run ended with both candidates analysed, the last one
\* having stopped at an Alloca tag.
C17_Witness ==
    /\ pc = "done"
    /\ analysed = Candidates
    /\ HasAlloca
    /\ consumed[funcaddr] = FirstAlloca

\* The records a step adds to the end of the patch list.
IsPrefix(a, b) == Len(a) <= Len(b) /\ SubSeq(b, 1, Len(a)) = a
Appended == SubSeq(stack_patch_data', Len(stack_patch_data) + 1,
                   Len(stack_patch_data'))
KindRank(k) == CASE k = "alloc" -> 1 [] k = "dealloc" -> 2 [] k = "var" -> 3

\* C18: every step keeps the records already in the patch list, in place;
\* the list changes only in the step that emits a function's patches,
\* which adds that function's alloc record, then one record per queued
\* Dealloc in queue order, then the variable records.
C18_AppendOnly ==
    [][/\ IsPrefix(stack_patch_data, stack_patch_data')
       /\ stack_patch_data' # stack_patch_data =>
              /\ pc = "emit"
              /\ pc' = "loop"
              /\ \A i \in 1..Len(Appended) : Appended[i].func = funcaddr
              /\ Appended[1].kind = "alloc"
              /\ Appended[1].memaddr = alloc_op.memaddr
              /\ \A i \in 1..Len(Appended), j \in 1..Len(Appended) :
                     i < j => KindRank(Appended[i].kind) <= KindRank(Appended[j].kind)
              /\ \A k \in 1..Len(dealloc_ops) :
                     /\ Appended[1 + k].kind = "dealloc"
                     /\ Appended[1 + k].memaddr = dealloc_ops[k].memaddr
              /\ \A i \in (2 + Len(dealloc_ops))..Len(Appended) :
                     Appended[i].kind = "var"]_vars

\* C18 witness: the list holds the records of two functions, the earlier
\* function's first.
C18_Witness ==
    /\ Len(stack_patch_data) > 1
    /\ stack_patch_data[1].func # stack_patch_data[Len(stack_patch_data)].func
    /\ stack_patch_data[Len(stack_patch_data)].func = funcaddr

\* The candidates tested and discarded so far.
Discarded == (1..(ui - 1)) \ committed

\* C19: from the baseline check on, the committed constraint set is
\* satisfiable, and every candidate that was discarded is unsatisfiable
\* with it, during the loop and when the loop has ended: no discarded
\* candidate could be added afterwards.
C19_CommittedMaximal ==
    (variables.linked /\ pc \in {"admit", "emit", "loop", "done"}) =>
        /\ Satisfiable(constraints)
        /\ \A i \in Discarded :
               ~Satisfiable(constraints \cup {unsafe_constraints[i]})

\* C19 witness: the loop ended and the function returned with one
\* candidate committed and another discarded.
C19_Witness ==
    /\ AdmissionDone
    /\ Returned
    /\ committed # {}
    /\ Discarded # {}

\* C20: whatever the order of Allocs and Accesses, an access whose offset
\* is below the negative of the canonical frame size is flagged unsafe, at
\* every moment of the classification and when it has ended.
C20_NoUnsafeMissed ==
    \A k \in 1..Len(variables.accesses) :
        variables.accesses[k].offset < -variables.stack_size
            => variables.accesses[k].unsafe

\* C20 witness: classification ended; an access read before the Alloc lies
\* below the final frame and is flagged.
C20_Witness ==
    /\ pc = "model"
    /\ \E k \in 1..Len(variables.accesses) :
           /\ variables.accesses[k].offset < -variables.stack_size
           /\ variables.accesses[k].memaddr < alloc_op.memaddr
           /\ variables.accesses[k].unsafe

====
